---------------------------- MODULE Spec2Model ----------------------------
(***************************************************************************)
(* The training driver of grayskull (train.py): parse_args' --save option  *)
(* and main, the episode/step loop with its exception handlers and its     *)
(* finalization block.  The environment and the agent are external         *)
(* collaborators: what they return (reward, done) and whether a call       *)
(* raises is chosen nondeterministically.  Observations and actions are    *)
(* opaque values the driver only passes along; they are not represented.   *)
(* Rewards are modelled as integers.  A KeyboardInterrupt is asynchronous  *)
(* and may be delivered between any two statements.                        *)
(***************************************************************************)
EXTENDS Integers, Sequences, FiniteSets, TLC

(* ---- bounds of the model ---- *)
MaxEpisodes == 2
MaxSteps == 2
MaxReward == 1

(* episodes == -1 means "forever" (line 100) *)
Forever == -1

VARIABLES
    pc,            \* position of the driver
    argSave,       \* the --save command-line token, "absent" when not given
    save,          \* main's parameter/local `save`
    episodes,      \* main's parameter `episodes`
    seed,          \* main's parameter `seed`: "None" or "int"
    render,        \* main's parameter `render`
    max_steps,     \* {} when the tag is missing (None), {L} otherwise
    episode, step, done, reward, total_reward,    \* locals of main
    pending,       \* exception in flight while the finally block runs
    escaped,       \* exception that left main
    dirCreated,    \* os.makedirs(results_path) has run
    savedPath,     \* argument of the agent.save call, <<>> before it
    answer,        \* what the operator typed at the prompt
    transition,    \* (step, done, truncated) last passed to agent.react
    epRewards,     \* environment: rewards returned since the last reset
    epStepCalls,   \* environment: step calls received since the last reset
    calls,         \* number of calls made to each collaborator operation
    stepApplied,   \* env.step calls that returned to the driver
    prompts,       \* raw_input calls
    finalCount,    \* entries into the finally block
    agentBuilt,    \* the agent constructor returned
    tryEntered,    \* control entered the try statement
    preSave,       \* value of `save` when main was entered
    signal,        \* first exception raised after main was entered
    callsAtSignal  \* `calls` when the first exception was raised

vars == <<pc, argSave, save, episodes, seed, render, max_steps, episode, step,
          done, reward, total_reward, pending, escaped, dirCreated, savedPath,
          answer, transition, epRewards, epStepCalls, calls, stepApplied,
          prompts, finalCount, agentBuilt, tryEntered, preSave, signal,
          callsAtSignal>>

(* ---- input domains ---- *)
Rewards == 0..MaxReward
StepLimits == {{}} \cup {{l} : l \in 1..MaxSteps}
EpisodeBudgets == {Forever} \cup (0..MaxEpisodes)
DirectSaves == {"None", "True", "False"}
CliSaves == {"absent", "true", "Y", "0", "no", "maybe"}
Answers == {"y", "Y", "n", "yes", ""}

(* ---- pure helpers ---- *)

UpperToLower == [s \in {"Y", "N", "TRUE", "YES"} |->
                   CASE s = "Y" -> "y" [] s = "N" -> "n"
                     [] s = "TRUE" -> "true" [] s = "YES" -> "yes"]

\* str.lower() on the strings the model uses
Lower(s) == IF s \in DOMAIN UpperToLower THEN UpperToLower[s] ELSE s

\* distutils.util.strtobool: the integer 1 or 0, or ValueError
Strtobool(s) ==
    IF Lower(s) \in {"y", "yes", "t", "true", "on", "1"} THEN "int1"
    ELSE IF Lower(s) \in {"n", "no", "f", "false", "off", "0"} THEN "int0"
    ELSE "ValueError"

\* `save is True`: identity with the bool singleton, which the int 1 is not
IsTrue(v) == v = "True"

\* `if save:` truthiness
Truthy(v) == v \in {"True", "int1"}

ShouldPromptAlways(v) == ~Truthy(v)
\* `if save is None:`
ShouldPrompt(v) == v = "None"

\* `if yn.lower() == 'y': save = True`
Resolve(v, yn) == IF Lower(yn) = "y" THEN "True" ELSE v

ResultsPath == <<"results", "agent", "game", "date">>
Join(p, name) == Append(p, name)

LoopCondInclusive(n, e) == n = Forever \/ e <= n
\* `while episodes == -1 or episode < episodes`
LoopCond(n, e) == n = Forever \/ e < n

StepCondInclusive(s, lim, d) == (\E l \in lim : s <= l) /\ ~d
\* `while step < max_steps and not done`; in Python 2 `step < None` is False
StepCond(s, lim, d) == (\E l \in lim : s < l) /\ ~d

\* `step == max_steps`
Truncated(s, lim) == s \in lim

AddRewardOverwrite(t, r) == r
\* `total_reward += reward`
AddReward(t, r) == t + r

ExceptTargetNoFinally(e) ==
    CASE e = "kbd" -> "except_kbd"
      [] e = "solved" -> "except_solved"
      [] OTHER -> "raised"
\* where an exception raised inside the try statement continues
ExceptTarget(e) ==
    CASE e = "kbd" -> "except_kbd"
      [] e = "solved" -> "except_solved"
      [] OTHER -> "finally"

RECURSIVE SumSeq(_)
SumSeq(s) == IF s = <<>> THEN 0 ELSE s[1] + SumSeq(Tail(s))

NoCalls == [reset |-> 0, render |-> 0, act |-> 0, step |-> 0, react |-> 0,
            save |-> 0]
Bump(c, op) == [c EXCEPT ![op] = @ + 1]

(* ---- positions ---- *)
PreTryPcs == {"main", "make_env", "seed", "construct", "max_steps"}
TryCallPcs == {"reset", "render", "act", "step_call", "react"}
TryPcs == TryCallPcs \cup {"loop_head", "step_head", "accum", "log"}
HandlerPcs == {"except_kbd", "except_solved"}
FinallyPcs == {"finally", "prompt", "prompt_wait", "save_check", "save"}
CallOf(p) == IF p = "step_call" THEN "step" ELSE p

Init ==
    /\ pc \in {"parse_args", "main"}
    /\ IF pc = "main"
         THEN argSave = "absent" /\ save \in DirectSaves
         ELSE argSave \in CliSaves /\ save = "None"
    /\ episodes \in EpisodeBudgets
    /\ seed \in {"None", "int"}
    /\ render \in BOOLEAN
    /\ max_steps \in StepLimits
    /\ episode = 0 /\ step = 0 /\ done = FALSE /\ reward = 0
    /\ total_reward = 0
    /\ pending = "none" /\ escaped = "none"
    /\ dirCreated = FALSE /\ savedPath = <<>> /\ answer = ""
    /\ transition = [step |-> 0, done |-> FALSE, truncated |-> FALSE]
    /\ epRewards = <<>> /\ epStepCalls = 0
    /\ calls = NoCalls /\ stepApplied = 0 /\ prompts = 0 /\ finalCount = 0
    /\ agentBuilt = FALSE /\ tryEntered = FALSE
    /\ preSave = save
    /\ signal = "none" /\ callsAtSignal = NoCalls

Raise(e) ==
    /\ signal' = IF signal = "none" THEN e ELSE signal
    /\ callsAtSignal' = IF signal = "none" THEN calls' ELSE callsAtSignal

NoRaise == UNCHANGED <<signal, callsAtSignal>>

Inputs == <<argSave, episodes, seed, render, max_steps>>
Locals == <<episode, step, done, reward, total_reward>>
EnvGhost == <<epRewards, epStepCalls, stepApplied>>
Final == <<dirCreated, savedPath, answer, prompts, finalCount>>

\* parse_args: --save with type=strtobool, default None; main(**args)
ParseArgs ==
    /\ pc = "parse_args"
    /\ IF argSave = "absent"
         THEN save' = "None" /\ pc' = "main"
         ELSE IF Strtobool(argSave) = "ValueError"
                THEN save' = save /\ pc' = "usage_error"
                ELSE save' = Strtobool(argSave) /\ pc' = "main"
    /\ preSave' = save'
    /\ UNCHANGED <<Inputs, Locals, EnvGhost, Final, pending, escaped,
                   transition, calls, agentBuilt, tryEntered>>
    /\ NoRaise

\* lines 65-69
MakeResultsDir ==
    /\ pc = "main"
    /\ dirCreated' = IsTrue(save)
    /\ pc' = "make_env"
    /\ UNCHANGED <<Inputs, save, Locals, EnvGhost, savedPath, answer, prompts,
                   finalCount, pending, escaped, transition, calls, agentBuilt,
                   tryEntered, preSave>>
    /\ NoRaise

\* line 72
MakeEnv ==
    /\ pc = "make_env"
    /\ pc' = "seed"
    /\ UNCHANGED <<Inputs, save, Locals, EnvGhost, Final, pending, escaped,
                   transition, calls, agentBuilt, tryEntered, preSave>>
    /\ NoRaise

\* lines 74-77: `random` and `np` are not imported, so seeding raises NameError
Seed ==
    /\ pc = "seed"
    /\ IF seed = "None"
         THEN pc' = "construct" /\ escaped' = escaped /\ NoRaise
         ELSE pc' = "raised" /\ escaped' = "error" /\ UNCHANGED calls
              /\ Raise("error")
    /\ UNCHANGED <<Inputs, save, Locals, EnvGhost, Final, pending,
                   transition, calls, agentBuilt, tryEntered, preSave>>

\* lines 82-88, the constructor returns
ConstructAgent ==
    /\ pc = "construct"
    /\ agentBuilt' = TRUE
    /\ pc' = "max_steps"
    /\ UNCHANGED <<Inputs, save, Locals, EnvGhost, Final, pending, escaped,
                   transition, calls, tryEntered, preSave>>
    /\ NoRaise

\* lines 82-91, the constructor raises IncompatibleGameError: log and return
ConstructIncompatible ==
    /\ pc = "construct"
    /\ pc' = "aborted"
    /\ UNCHANGED <<Inputs, save, Locals, EnvGhost, Final, pending, escaped,
                   transition, calls, agentBuilt, tryEntered, preSave>>
    /\ Raise("incompatible")

\* lines 94-98
ReadMaxSteps ==
    /\ pc = "max_steps"
    /\ episode' = 0
    /\ tryEntered' = TRUE
    /\ pc' = "loop_head"
    /\ UNCHANGED <<Inputs, save, step, done, reward, total_reward, EnvGhost,
                   Final, pending, escaped, transition, calls, agentBuilt,
                   preSave>>
    /\ NoRaise

\* lines 100-101; leaving the loop normally enters the finally block
LoopHead ==
    /\ pc = "loop_head"
    /\ IF LoopCond(episodes, episode)
         THEN episode < MaxEpisodes + 1 /\ episode' = episode + 1
              /\ pc' = "reset"
         ELSE episode' = episode /\ pc' = "finally"
    /\ UNCHANGED <<Inputs, save, step, done, reward, total_reward, EnvGhost,
                   Final, pending, escaped, transition, calls, agentBuilt,
                   tryEntered, preSave>>
    /\ NoRaise

\* lines 104-109
Reset ==
    /\ pc = "reset"
    /\ calls' = Bump(calls, "reset")
    /\ epRewards' = <<>> /\ epStepCalls' = 0
    /\ done' = FALSE /\ total_reward' = 0 /\ step' = 0
    /\ pc' = "step_head"
    /\ UNCHANGED <<Inputs, save, episode, reward, stepApplied, Final, pending,
                   escaped, transition, agentBuilt, tryEntered, preSave>>
    /\ NoRaise

\* lines 112-115
StepHead ==
    /\ pc = "step_head"
    /\ IF StepCond(step, max_steps, done)
         THEN step' = step + 1 /\ pc' = IF render THEN "render" ELSE "act"
         ELSE step' = step /\ pc' = "log"
    /\ UNCHANGED <<Inputs, save, episode, done, reward, total_reward, EnvGhost,
                   Final, pending, escaped, transition, calls, agentBuilt,
                   tryEntered, preSave>>
    /\ NoRaise

\* line 116
Render ==
    /\ pc = "render"
    /\ calls' = Bump(calls, "render")
    /\ pc' = "act"
    /\ UNCHANGED <<Inputs, save, Locals, EnvGhost, Final, pending, escaped,
                   transition, agentBuilt, tryEntered, preSave>>
    /\ NoRaise

\* line 119
Act ==
    /\ pc = "act"
    /\ calls' = Bump(calls, "act")
    /\ pc' = "step_call"
    /\ UNCHANGED <<Inputs, save, Locals, EnvGhost, Final, pending, escaped,
                   transition, agentBuilt, tryEntered, preSave>>
    /\ NoRaise

\* line 122
EnvStep ==
    /\ pc = "step_call"
    /\ \E r \in Rewards, d \in BOOLEAN :
         /\ reward' = r /\ done' = d
         /\ epRewards' = Append(epRewards, r)
    /\ calls' = Bump(calls, "step")
    /\ epStepCalls' = epStepCalls + 1
    /\ stepApplied' = stepApplied + 1
    /\ pc' = "accum"
    /\ UNCHANGED <<Inputs, save, episode, step, total_reward, Final, pending,
                   escaped, transition, agentBuilt, tryEntered, preSave>>
    /\ NoRaise

\* line 123
Accumulate ==
    /\ pc = "accum"
    /\ total_reward' = AddReward(total_reward, reward)
    /\ pc' = "react"
    /\ UNCHANGED <<Inputs, save, episode, step, done, reward, EnvGhost, Final,
                   pending, escaped, transition, calls, agentBuilt, tryEntered,
                   preSave>>
    /\ NoRaise

\* lines 126-136
React ==
    /\ pc = "react"
    /\ transition' = [step |-> step, done |-> done,
                      truncated |-> Truncated(step, max_steps)]
    /\ calls' = Bump(calls, "react")
    /\ pc' = "step_head"
    /\ UNCHANGED <<Inputs, save, Locals, EnvGhost, Final, pending, escaped,
                   agentBuilt, tryEntered, preSave>>
    /\ NoRaise

\* line 138
LogEpisode ==
    /\ pc = "log"
    /\ pc' = "loop_head"
    /\ UNCHANGED <<Inputs, save, Locals, EnvGhost, Final, pending, escaped,
                   transition, calls, agentBuilt, tryEntered, preSave>>
    /\ NoRaise

\* a collaborator call inside the try statement raises: SolvedGame, an
\* unanticipated error, or a KeyboardInterrupt delivered during the call
CollaboratorRaises ==
    /\ pc \in TryCallPcs
    /\ calls' = Bump(calls, CallOf(pc))
    /\ epStepCalls' = IF pc = "step_call" THEN epStepCalls + 1 ELSE epStepCalls
    /\ \E e \in {"solved", "error", "kbd"} :
         /\ pc' = ExceptTarget(e)
         /\ pending' = IF ExceptTarget(e) = "finally" THEN e ELSE "none"
         /\ escaped' = IF ExceptTarget(e) = "raised" THEN e ELSE escaped
         /\ Raise(e)
    /\ UNCHANGED <<Inputs, save, Locals, epRewards, stepApplied, Final,
                   transition, agentBuilt, tryEntered, preSave>>

\* KeyboardInterrupt delivered between two statements of main.  "finally" is
\* the transfer of control into the finally block, not a statement: an
\* interrupt that arrives there is delivered at the block's first statement.
Interrupt ==
    /\ pc \in PreTryPcs \cup TryPcs \cup HandlerPcs \cup (FinallyPcs \ {"finally"})
    /\ IF pc \in TryPcs
         THEN pc' = ExceptTarget("kbd") /\ pending' = "none"
              /\ escaped' = escaped
         ELSE IF pc \in HandlerPcs
                THEN pc' = "finally" /\ pending' = "kbd" /\ escaped' = escaped
                ELSE pc' = "raised" /\ pending' = "none" /\ escaped' = "kbd"
    /\ UNCHANGED calls
    /\ Raise("kbd")
    /\ UNCHANGED <<Inputs, save, Locals, EnvGhost, Final, transition,
                   agentBuilt, tryEntered, preSave>>

\* lines 139-140
HandleInterrupt ==
    /\ pc = "except_kbd"
    /\ pc' = "finally"
    /\ UNCHANGED <<Inputs, save, Locals, EnvGhost, Final, pending, escaped,
                   transition, calls, agentBuilt, tryEntered, preSave>>
    /\ NoRaise

\* lines 141-142
HandleSolved ==
    /\ pc = "except_solved"
    /\ pc' = "finally"
    /\ UNCHANGED <<Inputs, save, Locals, EnvGhost, Final, pending, escaped,
                   transition, calls, agentBuilt, tryEntered, preSave>>
    /\ NoRaise

\* lines 143-144
FinallyBegin ==
    /\ pc = "finally"
    /\ finalCount' = finalCount + 1
    /\ pc' = IF ShouldPrompt(save) THEN "prompt" ELSE "save_check"
    /\ UNCHANGED <<Inputs, save, Locals, EnvGhost, dirCreated, savedPath,
                   answer, prompts, pending, escaped, transition, calls,
                   agentBuilt, tryEntered, preSave>>
    /\ NoRaise

\* line 145: raw_input is called and blocks
PromptIssue ==
    /\ pc = "prompt"
    /\ prompts' = prompts + 1
    /\ pc' = "prompt_wait"
    /\ UNCHANGED <<Inputs, save, Locals, EnvGhost, dirCreated, savedPath,
                   answer, finalCount, pending, escaped, transition, calls,
                   agentBuilt, tryEntered, preSave>>
    /\ NoRaise

\* lines 145-147: the operator answers
PromptAnswer ==
    /\ pc = "prompt_wait"
    /\ \E yn \in Answers :
         /\ answer' = yn
         /\ save' = Resolve(save, yn)
    /\ pc' = "save_check"
    /\ UNCHANGED <<Inputs, Locals, EnvGhost, dirCreated, savedPath, prompts,
                   finalCount, pending, escaped, transition, calls, agentBuilt,
                   tryEntered, preSave>>
    /\ NoRaise

\* the end of the finally block: return agent, or re-raise what is in flight
FinallyEnd ==
    /\ pc' = IF pending = "none" THEN "returned" ELSE "raised"
    /\ escaped' = IF pending = "none" THEN escaped ELSE pending

\* line 149 with a false `save`, then line 152
SkipSave ==
    /\ pc = "save_check"
    /\ ~Truthy(save)
    /\ FinallyEnd
    /\ UNCHANGED <<Inputs, save, Locals, EnvGhost, Final, pending, transition,
                   calls, agentBuilt, tryEntered, preSave>>
    /\ NoRaise

\* line 149 with a true `save`
SaveCheck ==
    /\ pc = "save_check"
    /\ Truthy(save)
    /\ pc' = "save"
    /\ UNCHANGED <<Inputs, save, Locals, EnvGhost, Final, pending, escaped,
                   transition, calls, agentBuilt, tryEntered, preSave>>
    /\ NoRaise

\* line 150, then line 152
Save ==
    /\ pc = "save"
    /\ calls' = Bump(calls, "save")
    /\ savedPath' = Join(ResultsPath, "final.pkl")
    /\ FinallyEnd
    /\ UNCHANGED <<Inputs, save, Locals, EnvGhost, dirCreated, answer, prompts,
                   finalCount, pending, transition, agentBuilt, tryEntered,
                   preSave>>
    /\ NoRaise

\* line 150: agent.save raises (for instance the directory does not exist)
SaveRaises ==
    /\ pc = "save"
    /\ calls' = Bump(calls, "save")
    /\ savedPath' = Join(ResultsPath, "final.pkl")
    /\ pc' = "raised" /\ escaped' = "error" /\ pending' = "none"
    /\ Raise("error")
    /\ UNCHANGED <<Inputs, save, Locals, EnvGhost, dirCreated, answer, prompts,
                   finalCount, transition, agentBuilt, tryEntered, preSave>>

Next ==
    \/ ParseArgs
    \/ MakeResultsDir
    \/ MakeEnv
    \/ Seed
    \/ ConstructAgent
    \/ ConstructIncompatible
    \/ ReadMaxSteps
    \/ LoopHead
    \/ Reset
    \/ StepHead
    \/ Render
    \/ Act
    \/ EnvStep
    \/ Accumulate
    \/ React
    \/ LogEpisode
    \/ CollaboratorRaises
    \/ Interrupt
    \/ HandleInterrupt
    \/ HandleSolved
    \/ FinallyBegin
    \/ PromptIssue
    \/ PromptAnswer
    \/ SkipSave
    \/ SaveCheck
    \/ Save
    \/ SaveRaises

Spec == Init /\ [][Next]_vars

TypeOK ==
    /\ episode \in 0..(MaxEpisodes + 1)
    /\ \A l \in max_steps : step \in 0..l
    /\ finalCount \in 0..1

(* ---- properties ---- *)

TotalCalls(c) == c.reset + c.act + c.step + c.react
LoopExited == pc = "finally"
FinalizationCompleted ==
    pc = "returned" \/ (pc = "raised" /\ pending # "none" /\ finalCount = 1)
Decision == Truthy(preSave) \/ (prompts = 1 /\ Lower(answer) = "y")

\* C1: with a finite budget N >= 0 and no interrupt, solved signal or other
\* exception, env.reset has been called exactly N times (N episodes were
\* run) when the episode loop exits to finalization.
C1_ExactlyNEpisodes ==
    (LoopExited /\ signal = "none" /\ episodes # Forever)
        => (calls.reset = episodes /\ episode = episodes)

C1_Witness ==
    LoopExited /\ signal = "none" /\ episodes = 2 /\ calls.reset = 2

\* C2: an episode never receives more than L env.step calls; the step loop
\* is left exactly when done is reported or the step count is L, and is
\* continued only otherwise; a transition at step L that is not done is
\* passed to agent.react with truncated set.
C2_StepLimit ==
    \A L \in max_steps :
        /\ epStepCalls <= L /\ step <= L
        /\ pc = "log" => (done \/ step = L)
        /\ pc \in {"render", "act", "step_call"} => (~done /\ step <= L)
        /\ (calls.react > 0 /\ transition.step = L /\ ~transition.done)
              => transition.truncated

C2_Witness ==
    \E L \in max_steps :
        /\ pc = "log" /\ step = L /\ ~done /\ L > 1 /\ epStepCalls = L
        /\ calls.react > 0 /\ transition.step = L /\ transition.truncated

\* C3: the truncated flag passed to agent.react is true iff the step count
\* reached the limit without natural termination, so done and truncated are
\* never both true on one transition.
C3_TruncatedIffNotDone ==
    calls.react > 0 =>
        /\ transition.truncated <=>
              (transition.step \in max_steps /\ ~transition.done)
        /\ ~(transition.done /\ transition.truncated)

\* C4: however the episode loop ends, the finalization block is executed
\* exactly once: never twice, and once by the time main is left.
C4_FinalizationOnce ==
    /\ finalCount <= 1
    /\ (tryEntered /\ pc \in {"returned", "raised"}) => finalCount = 1
    /\ (tryEntered /\ pc \in FinallyPcs \ {"finally"}) => finalCount = 1

C4_Witness ==
    /\ pc = "raised" /\ escaped = "error" /\ signal = "error"
    /\ finalCount = 1 /\ calls.step > 0

\* C5: an incompatibility error from the agent constructor prevents every
\* episode call and leaves nothing created on the filesystem, for every
\* value of the save option.
C5_IncompatibleNoEffects ==
    pc = "aborted" =>
        /\ TotalCalls(calls) = 0
        /\ calls.save = 0 /\ savedPath = <<>>
        /\ ~dirCreated

\* C6: once an interrupt or a solved signal is raised after agent
\* construction, no further episode call is made and the exception never
\* leaves main; only unanticipated errors propagate.
C6_HandledLocally ==
    /\ signal \in {"kbd", "solved"}
          => TotalCalls(calls) = TotalCalls(callsAtSignal)
    /\ (agentBuilt /\ pc = "raised") => escaped = "error"

\* C7: when the loop exits to finalization every env.step that was applied
\* has been followed by its agent.react call.
C7_NoHalfAppliedTransition ==
    LoopExited => calls.react = stepApplied

\* C8: the operator is prompted iff save was None; agent.save is called
\* exactly once, with results_path/final.pkl, iff the resolved decision is
\* to save; with save False there is neither prompt nor save.
C8_SaveDecision ==
    /\ prompts <= 1 /\ calls.save <= 1
    /\ prompts = 1 => preSave = "None"
    /\ calls.save = 1 =>
          (Decision /\ savedPath = <<"results", "agent", "game", "date",
                                      "final.pkl">>)
    /\ preSave \in {"False", "int0"} => (prompts = 0 /\ calls.save = 0)
    /\ FinalizationCompleted =>
          /\ prompts = 1 <=> preSave = "None"
          /\ calls.save = 1 <=> Decision

C8_Witness ==
    /\ pc = "returned" /\ preSave = "None" /\ prompts = 1 /\ answer = "Y"
    /\ calls.save = 1

\* C9: the accumulated reward is zero at the start of an episode and, when
\* the episode ends, is the sum of the rewards env.step returned in that
\* episode only.
C9_RewardSum ==
    /\ (pc = "step_head" /\ step = 0) => total_reward = 0
    /\ pc = "log" => total_reward = SumSeq(epRewards)

C9_Witness ==
    /\ pc = "log" /\ episode = 2 /\ Len(epRewards) = 2
    /\ total_reward = 2 /\ calls.step > 2

\* C10: whenever agent.save is called the driver has created the results
\* directory before, however the decision resolved to true; and the
\* directory is created only when saving was requested.
C10_DirBeforeSave ==
    /\ (pc = "save" \/ calls.save > 0) => dirCreated
    /\ dirCreated => Truthy(preSave)

=============================================================================
